---- MODULE Spec2Model ----
(***************************************************************************)
(* Model of torchy_baselines/common/distributions.py: the probability      *)
(* distributions of a policy head (DiagGaussian, SquashedDiagGaussian,     *)
(* Categorical, StateDependentNoise), the TanhBijector and the factory     *)
(* make_proba_distribution.                                                *)
(*                                                                         *)
(* Numbers are fixed point: the integer n stands for the real n / ONE.     *)
(* A tensor is a record [v |-> values, g |-> leaves]: v is a sequence of   *)
(* rows (2-D) or of scalars (1-D), g is the set of leaf tensors the value  *)
(* has a gradient path to (torch autograd).                                *)
(***************************************************************************)
EXTENDS Integers, Sequences, FiniteSets, TLC

\* ------------------------------------------------------------------ bounds
MaxBatch == 2      \* rows of a batch of means / features / logits
MaxLatent == 2     \* feature dimensions (latent_dim, latent_sde_dim)
MaxRank == 2       \* rank of a Box action space

\* --------------------------------------------------------- number model
ONE == 16          \* fixed-point unit: 1.0
Epsilon == 2       \* the epsilon argument (default 1e-6), in fixed point
MachEps == 1       \* th.finfo(dtype).eps, the smallest step below 1.0
Inf == 100000      \* float infinity
NaN == 1000000     \* float not-a-number

\* the special values of float arithmetic
IsNaN(x) == x = NaN
IsInf(x) == x = Inf \/ x = -Inf
IsFinite(x) == -Inf < x /\ x < Inf
\* a result beyond the largest float overflows to an infinity
Round(x) == IF x >= Inf THEN Inf ELSE IF x <= -Inf THEN -Inf ELSE x
\* -x, x + y, x - y and 0.5 * x: inf - inf is nan, nan propagates
Neg(x) == IF IsNaN(x) THEN NaN ELSE -x
Add(x, y) ==
  IF IsNaN(x) \/ IsNaN(y) THEN NaN
  ELSE IF IsInf(x) THEN (IF y = -x THEN NaN ELSE x)
  ELSE IF IsInf(y) THEN y
  ELSE Round(x + y)
Sub(x, y) == Add(x, Neg(y))
Half(x) == IF IsNaN(x) \/ IsInf(x) THEN x ELSE x \div 2

None == [none |-> TRUE]
\* an Optional[int] that is not None
Some(n) == [some |-> n]

Max2(a, b) == IF a >= b THEN a ELSE b
Min2(a, b) == IF a <= b THEN a ELSE b

\* round(ONE * exp(x / ONE)) for x in -64 .. 32
ExpTable ==
  << 0, 0, 0, 0, 0, 0, 0, 0, 0, 1, 1, 1, 1, 1, 1, 1, 1, 1, 1, 1, 1, 1, 1, 1,
     1, 1, 1, 2, 2, 2, 2, 2, 2, 2, 2, 3, 3, 3, 3, 3, 4, 4, 4, 4, 5, 5, 5, 6,
     6, 6, 7, 7, 8, 8, 9, 9, 10, 10, 11, 12, 12, 13, 14, 15, 16, 17, 18, 19,
     21, 22, 23, 25, 26, 28, 30, 32, 34, 36, 38, 41, 43, 46, 49, 52, 56, 59,
     63, 67, 72, 76, 81, 86, 92, 98, 104, 111, 118 >>

\* th.exp
Exp(x) == IF IsNaN(x) THEN NaN
          ELSE IF x < -64 THEN 0 ELSE IF x > 32 THEN Inf ELSE ExpTable[x + 65]

\* round(ONE * ln(x / ONE)) for x in 1 .. 64
LogTable ==
  << -44, -33, -27, -22, -19, -16, -13, -11, -9, -8, -6, -5, -3, -2, -1, 0,
     1, 2, 3, 4, 4, 5, 6, 6, 7, 8, 8, 9, 10, 10, 11, 11, 12, 12, 13, 13, 13,
     14, 14, 15, 15, 15, 16, 16, 17, 17, 17, 18, 18, 18, 19, 19, 19, 19, 20,
     20, 20, 21, 21, 21, 21, 22, 22, 22 >>

Ln2 == LogTable[2 * ONE]   \* ln 2

\* th.log: nan below 0, -inf at 0; above the table by
\* ln(x) = ln(x / 2) + ln 2
RECURSIVE Log(_)
Log(x) == IF IsNaN(x) \/ x < 0 THEN NaN
          ELSE IF x = 0 THEN -Inf
          ELSE IF x >= Inf THEN Inf
          ELSE IF x <= 64 THEN LogTable[x]
          ELSE Log(x \div 2) + Ln2

\* th.log1p
Log1p(x) == Log(Add(ONE, x))

\* 0.5 * ln(2 pi), the constant of the Normal density (2 pi = 100 / ONE)
HalfLog2Pi == Log(100) \div 2

\* round(ONE * tanh(x / ONE)) for x in 0 .. 40; tanh saturates to 1.0 above
TanhTable ==
  << 0, 1, 2, 3, 4, 5, 6, 7, 7, 8, 9, 10, 10, 11, 11, 12, 12, 13, 13, 13, 14,
     14, 14, 14, 14, 15, 15, 15, 15, 15, 15, 15, 15, 15, 16, 16, 16, 16, 16,
     16, 16 >>

\* th.tanh
Tanh(x) == IF IsNaN(x) THEN NaN
           ELSE IF x < 0 THEN (IF x < -40 THEN -ONE ELSE -TanhTable[1 - x])
           ELSE (IF x > 40 THEN ONE ELSE TanhTable[x + 1])

\* th.sqrt: the largest r with r * r <= x * ONE; nan below 0
RECURSIVE SqrtBetween(_, _, _)
SqrtBetween(x, lo, hi) ==
  IF hi - lo <= 1 THEN lo
  ELSE LET mid == (lo + hi) \div 2
       IN  IF mid * mid <= x * ONE THEN SqrtBetween(x, mid, hi)
           ELSE SqrtBetween(x, lo, mid)
Sqrt(x) == IF IsNaN(x) \/ x < 0 THEN NaN
           ELSE IF x = 0 \/ x >= Inf THEN x
           ELSE SqrtBetween(x, 0, x + ONE + 1)

\* fixed-point product; 0 * inf is nan
Mul(a, b) ==
  IF IsNaN(a) \/ IsNaN(b) THEN NaN
  ELSE IF IsInf(a) \/ IsInf(b)
       THEN (IF a = 0 \/ b = 0 THEN NaN ELSE IF (a > 0) = (b > 0) THEN Inf ELSE -Inf)
  ELSE Round((a * b) \div ONE)

\* ------------------------------------------------------------ tensors
\* T(v, d, g): values v (a sequence of rows), d dimensions (0: scalar,
\* 1: vector held as one row, 2: matrix), gradient leaves g.
T(v, d, g) == [v |-> v, d |-> d, g |-> g]
TErr(e) == [err |-> e]
IsErr(t) == "err" \in DOMAIN t
IsNone(t) == t = None
IsTensor(t) == "v" \in DOMAIN t

NRows(t) == Len(t.v)
NCols(t) == Len(t.v[1])

\* len(tensor): the size of the first dimension
TLen(t) == IF t.d = 2 THEN NRows(t) ELSE NCols(t)

\* tensor.detach(): the same values, cut from the gradient graph
Detach(t) == T(t.v, t.d, {})

\* an elementwise function of one tensor (th.exp, th.tanh, ** 2, ...)
Map(F(_), t) ==
  IF IsErr(t) THEN t
  ELSE T([i \in 1..NRows(t) |-> [j \in 1..NCols(t) |-> F(t.v[i][j])]], t.d, t.g)

\* torch broadcasting of two shapes of at most 2 dimensions
Broadcastable(a, b) ==
  /\ (NRows(a) = NRows(b) \/ NRows(a) = 1 \/ NRows(b) = 1)
  /\ (NCols(a) = NCols(b) \/ NCols(a) = 1 \/ NCols(b) = 1)

At(t, i, j) == t.v[IF NRows(t) = 1 THEN 1 ELSE i][IF NCols(t) = 1 THEN 1 ELSE j]

\* an elementwise function of two tensors (+, -, *), with broadcasting;
\* shapes that do not broadcast raise RuntimeError
Zip(F(_, _), a, b) ==
  IF IsErr(a) THEN a
  ELSE IF IsErr(b) THEN b
  ELSE IF ~Broadcastable(a, b) THEN TErr("RuntimeError")
  ELSE T([i \in 1..Max2(NRows(a), NRows(b)) |->
            [j \in 1..Max2(NCols(a), NCols(b)) |-> F(At(a, i, j), At(b, i, j))]],
         Max2(a.d, b.d), a.g \cup b.g)

Plus(x, y) == Add(x, y)
Minus(x, y) == Sub(x, y)
Square(x) == Mul(x, x)

RECURSIVE SumSeq(_)
SumSeq(s) == IF s = <<>> THEN 0 ELSE Add(Head(s), SumSeq(Tail(s)))

\* tensor.sum(axis=1) / th.sum(tensor, dim=1): one entry per row
SumDim1(t) ==
  IF IsErr(t) THEN t
  ELSE T(<<[i \in 1..NRows(t) |-> SumSeq(t.v[i])]>>, 1, t.g)

\* tensor.sum(): one scalar
SumAll(t) ==
  IF IsErr(t) THEN t
  ELSE T(<<<<SumSeq([i \in 1..NRows(t) |-> SumSeq(t.v[i])])>>>>, 0, t.g)

sum_independent_dims(tensor) ==
  IF IsErr(tensor) THEN tensor
  ELSE IF tensor.d > 1 THEN SumDim1(tensor) ELSE SumAll(tensor)

\* the product of row x (a sequence) with the matrix m (a sequence of rows)
RowTimes(x, m) ==
  [j \in 1..Len(m[1]) |-> SumSeq([k \in 1..Len(x) |-> Mul(x[k], m[k][j])])]

\* th.mm(a, b): the inner sizes must agree
MatMul(a, b) ==
  IF IsErr(a) THEN a
  ELSE IF IsErr(b) THEN b
  ELSE IF NCols(a) # NRows(b) THEN TErr("RuntimeError")
  ELSE T([i \in 1..NRows(a) |-> RowTimes(a.v[i], b.v)], 2, a.g \cup b.g)

FMul(x, y) == Mul(x, y)
OnesLike(t) == T([i \in 1..NRows(t) |-> [j \in 1..NCols(t) |-> ONE]], t.d, {})
Ones(r, c) == T([i \in 1..r |-> [j \in 1..c |-> ONE]], 2, {})
ZerosLike(t) == T([i \in 1..NRows(t) |-> [j \in 1..NCols(t) |-> 0]], t.d, {})

\* ------------------------------------------------- inputs and random draws
Seeds == {1, 2}        \* the patterns of a random draw
InputSeeds == {1}      \* the patterns of an input tensor

\* the r x c matrix of pattern `seed` over the values vals
Pattern(vals, seed, r, c) ==
  [i \in 1..r |-> [j \in 1..c |-> vals[((seed + i + 2 * j) % Len(vals)) + 1]]]

MeanVals == <<0, ONE, -ONE>>          \* entries of mean_actions
LatentVals == <<ONE, 2 * ONE, 0>>     \* entries of latent_sde
LogStdVals == <<0, 1, -ONE, ONE>>     \* entries of log_std
LogitVals == <<0, 2 * ONE, ONE>>      \* entries of action_logits
NoiseVals == <<ONE, -ONE, 0>>         \* standard normal draws
ActionVals == <<0, ONE, -ONE, ONE - 1>>  \* entries of an action given to log_prob

MeanActions(seed, b, a) == T(Pattern(MeanVals, seed, b, a), 2, {"mean_actions"})
LatentSde(seed, b, l) == T(Pattern(LatentVals, seed, b, l), 2, {"latent_sde"})
LogStdMat(seed, l, a) == T(Pattern(LogStdVals, seed, l, a), 2, {"log_std"})
LogStdVec(seed, a) == T(Pattern(LogStdVals, seed, 1, a), 1, {"log_std"})
Logits(seed, b, n) == T(Pattern(LogitVals, seed, b, n), 2, {"action_logits"})
ActionIn(seed, b, a) == T(Pattern(ActionVals, seed, b, a), 2, {})
\* entries of a squashed action: inside (-1, 1), next to the ends and at them
SquashedActionVals == <<0, ONE, -ONE, ONE - 1, ONE - 3, 3 - ONE>>
SquashedActionSeeds == {1, 2, 3}
SquashedActionIn(seed, b, a) == T(Pattern(SquashedActionVals, seed, b, a), 2, {})
\* the standard normal noise of one reparameterized draw of the shape of t
NoiseLike(seed, t) == T(Pattern(NoiseVals, seed, NRows(t), NCols(t)), t.d, {})

\* --------------------------------------------- torch.distributions.Normal
\* Normal(loc, scale): both broadcast to one shape (broadcast_all)
Normal(loc, scale) ==
  IF IsErr(loc) THEN loc
  ELSE IF IsErr(scale) THEN scale
  ELSE IF ~Broadcastable(loc, scale) THEN TErr("ValueError")
  ELSE [mean |-> Zip(Plus, loc, ZerosLike(scale)),
        scale |-> Zip(Plus, scale, ZerosLike(loc))]

\* Normal.rsample(): loc + scale * eps, eps the standard normal noise
NormalRsample(dist, seed) ==
  Zip(Plus, dist.mean, Zip(FMul, dist.scale, NoiseLike(seed, dist.mean)))

NormalEntropyElem(sigma) == ONE \div 2 + HalfLog2Pi + Log(sigma)
\* Normal.entropy(): 0.5 + 0.5 * log(2 pi) + log(scale), per element
NormalEntropy(dist) == Map(NormalEntropyElem, dist.scale)

\* (value - loc) ** 2 / (2 * var): x / 0 is inf, 0 / 0 is nan
SquareOver(dx, sigma) ==
  IF IsNaN(dx) \/ IsNaN(sigma) THEN NaN
  ELSE IF IsInf(dx) THEN (IF IsInf(sigma) THEN NaN ELSE Inf)
  ELSE IF IsInf(sigma) THEN 0
  ELSE IF sigma = 0 THEN (IF dx = 0 THEN NaN ELSE Inf)
  ELSE Round((dx * dx * ONE) \div (2 * sigma * sigma))
NormalLogProbElem(x, mu, sigma) ==
  Sub(Sub(Neg(SquareOver(Sub(x, mu), sigma)), Log(sigma)), HalfLog2Pi)
\* Normal.log_prob(value): -((value - loc)^2) / (2 var) - log(scale) - log(sqrt(2 pi))
NormalLogProb(dist, value) ==
  IF IsErr(value) THEN value
  ELSE IF ~Broadcastable(dist.mean, value) THEN TErr("ValueError")
  ELSE T([i \in 1..Max2(NRows(dist.mean), NRows(value)) |->
            [j \in 1..Max2(NCols(dist.mean), NCols(value)) |->
               NormalLogProbElem(At(value, i, j), At(dist.mean, i, j),
                                 At(dist.scale, i, j))]],
         Max2(dist.mean.d, value.d), dist.mean.g \cup dist.scale.g \cup value.g)

\* ------------------------------------------------------ method outcomes
\* A method call ends with the object as it has left it and what it
\* returned: a value, None, the object itself, or a raised exception.
Done(s, r) == [self |-> s, ret |-> r]
Self == [selfref |-> TRUE]
Raised(r) == IsErr(r)

\* -------------------------------------------------------- TanhBijector
TanhBijector(epsilon) == [epsilon |-> epsilon]

TanhBijector_forward(x) == Map(Tanh, x)

\* 0.5 * (x.log1p() - (-x).log1p())
AtanhElem(x) == Half(Sub(Log1p(x), Log1p(Neg(x))))
TanhBijector_atanh(x) == Map(AtanhElem, x)

\* y.clamp(min=-1. + eps, max=1. - eps); nan stays nan
ClampElem(y) == IF IsNaN(y) THEN NaN
                ELSE Max2(-ONE + MachEps, Min2(ONE - MachEps, y))
\* inverse without the clamp
Mutant_TanhBijector_inverse(y) == TanhBijector_atanh(y)

TanhBijector_inverse(y) == TanhBijector_atanh(Map(ClampElem, y))

LogProbCorrectionElem(x, epsilon) ==
  Log(Add(Sub(ONE, Mul(Tanh(x), Tanh(x))), epsilon))
TanhBijector_log_prob_correction(bijector, x) ==
  Map(LAMBDA e: LogProbCorrectionElem(e, bijector.epsilon), x)

\* ------------------------------------------- DiagGaussianDistribution
DiagGaussianDistribution(action_dim) ==
  [cls |-> "DiagGaussianDistribution", distribution |-> None,
   action_dim |-> action_dim, mean_actions |-> None, log_std |-> None]

DiagGaussian_proba_distribution_net(s, latent_dim, log_std_init) ==
  Done(s, [net |-> [in_features |-> latent_dim, out_features |-> s.action_dim],
           log_std |-> T(<<[j \in 1..s.action_dim |-> Mul(ONE, log_std_init)]>>,
                         1, {"log_std"})])

DiagGaussian_proba_distribution(s, mean_actions, log_std) ==
  LET action_std == Zip(FMul, OnesLike(mean_actions), Map(Exp, log_std))
      dist == Normal(mean_actions, action_std)
  IN  IF IsErr(dist) THEN Done(s, dist)
      ELSE Done([s EXCEPT !.distribution = dist], Self)

\* mode() returning the mean_actions field instead of the distribution's mean
Mutant_DiagGaussian_mode(s) == Done(s, s.mean_actions)

DiagGaussian_mode(s) ==
  IF IsNone(s.distribution) THEN Done(s, TErr("AttributeError"))
  ELSE Done(s, s.distribution.mean)

DiagGaussian_sample(s, seed) ==
  IF IsNone(s.distribution) THEN Done(s, TErr("AttributeError"))
  ELSE Done(s, NormalRsample(s.distribution, seed))

DiagGaussian_entropy(s) ==
  IF IsNone(s.distribution) THEN Done(s, TErr("AttributeError"))
  ELSE Done(s, sum_independent_dims(NormalEntropy(s.distribution)))

DiagGaussian_log_prob(s, action) ==
  IF IsNone(s.distribution) THEN Done(s, TErr("AttributeError"))
  ELSE Done(s, sum_independent_dims(NormalLogProb(s.distribution, action)))

\* ----------------------------------- SquashedDiagGaussianDistribution
SquashedDiagGaussianDistribution(action_dim) ==
  [cls |-> "SquashedDiagGaussianDistribution", distribution |-> None,
   action_dim |-> action_dim, mean_actions |-> None, log_std |-> None,
   epsilon |-> Epsilon, gaussian_action |-> None]

Squashed_proba_distribution(s, mean_actions, log_std) ==
  DiagGaussian_proba_distribution(s, mean_actions, log_std)

Squashed_mode(s) ==
  IF IsNone(s.distribution) THEN Done(s, TErr("AttributeError"))
  ELSE LET s1 == [s EXCEPT !.gaussian_action = s.distribution.mean]
       IN  Done(s1, Map(Tanh, s1.gaussian_action))

Squashed_entropy(s) == Done(s, None)

Squashed_sample(s, seed) ==
  IF IsNone(s.distribution) THEN Done(s, TErr("AttributeError"))
  ELSE LET s1 == [s EXCEPT !.gaussian_action = NormalRsample(s.distribution, seed)]
       IN  Done(s1, Map(Tanh, s1.gaussian_action))

SquashCorrectionElem(a, epsilon) == Log(Add(Sub(ONE, Mul(a, a)), epsilon))

\* log_prob that stores the pre-squash value it has recovered in the cache
Mutant_Squashed_log_prob(s, action, gaussian_action) ==
  LET ga == IF IsNone(gaussian_action) THEN TanhBijector_inverse(action)
            ELSE gaussian_action
      lp == DiagGaussian_log_prob(s, ga)
  IN  IF Raised(lp.ret) THEN lp
      ELSE Done([s EXCEPT !.gaussian_action = ga],
                Zip(Minus, lp.ret,
                    SumDim1(Map(LAMBDA a: SquashCorrectionElem(a, s.epsilon), action))))

\* gaussian_action = None stands for the omitted argument
Squashed_log_prob(s, action, gaussian_action) ==
  LET ga == IF IsNone(gaussian_action) THEN TanhBijector_inverse(action)
            ELSE gaussian_action
      lp == DiagGaussian_log_prob(s, ga)
  IN  IF Raised(lp.ret) THEN lp
      ELSE Done(s, Zip(Minus, lp.ret,
                       SumDim1(Map(LAMBDA a: SquashCorrectionElem(a, s.epsilon), action))))

\* -------------------------------------------- CategoricalDistribution
CategoricalDistribution(action_dim) ==
  [cls |-> "CategoricalDistribution", distribution |-> None,
   action_dim |-> action_dim]

Categorical_proba_distribution_net(s, latent_dim) ==
  Done(s, [net |-> [in_features |-> latent_dim, out_features |-> s.action_dim]])

\* Categorical(logits=...): logits normalised by their logsumexp, probs = softmax
LogSumExp(row) == Log(SumSeq([j \in 1..Len(row) |-> Exp(row[j])]))
Categorical(logits) ==
  LET norm == [i \in 1..NRows(logits) |->
                 [j \in 1..NCols(logits) |-> logits.v[i][j] - LogSumExp(logits.v[i])]]
  IN  [logits |-> T(norm, 2, logits.g),
       probs |-> T([i \in 1..NRows(logits) |->
                      [j \in 1..NCols(logits) |-> Exp(norm[i][j])]], 2, logits.g)]

Categorical_proba_distribution(s, action_logits) ==
  Done([s EXCEPT !.distribution = Categorical(action_logits)], Self)

\* th.argmax(row): the (first) index of the largest entry, from 0
ArgMax(row) ==
  (CHOOSE j \in 1..Len(row) :
     /\ \A k \in 1..Len(row) : row[k] <= row[j]
     /\ \A k \in 1..(j - 1) : row[k] < row[j]) - 1

Categorical_mode(s) ==
  IF IsNone(s.distribution) THEN Done(s, TErr("AttributeError"))
  ELSE LET p == s.distribution.probs
       IN  Done(s, T(<<[i \in 1..NRows(p) |-> ArgMax(p.v[i])]>>, 1, {}))

\* Categorical.sample(): one category index per batch row
Categorical_sample(s, seed) ==
  IF IsNone(s.distribution) THEN Done(s, TErr("AttributeError"))
  ELSE LET p == s.distribution.probs
       IN  Done(s, T(<<[i \in 1..NRows(p) |-> (seed + i) % NCols(p)]>>, 1, {}))

\* Categorical.entropy(): -sum(p * log p) per batch row
Categorical_entropy(s) ==
  IF IsNone(s.distribution) THEN Done(s, TErr("AttributeError"))
  ELSE LET d == s.distribution
       IN  Done(s, T(<<[i \in 1..NRows(d.probs) |->
                         0 - SumSeq([j \in 1..NCols(d.probs) |->
                                       Mul(d.probs.v[i][j], d.logits.v[i][j])])]>>,
                     1, d.logits.g))

\* Categorical.log_prob(value): the log-probability of each row's category;
\* value (one index per row) broadcasts against the batch
Categorical_log_prob(s, action) ==
  IF IsNone(s.distribution) THEN Done(s, TErr("AttributeError"))
  ELSE LET d == s.distribution
           b == NRows(d.logits)
           n == NCols(action)
       IN  IF ~(n = b \/ n = 1 \/ b = 1) THEN Done(s, TErr("RuntimeError"))
           ELSE Done(s, T(<<[i \in 1..Max2(n, b) |->
                              d.logits.v[IF b = 1 THEN 1 ELSE i]
                                        [action.v[1][IF n = 1 THEN 1 ELSE i] + 1]]>>,
                          1, d.logits.g))

\* ------------------------------------ StateDependentNoiseDistribution
StateDependentNoiseDistribution(action_dim, full_std, use_expln, squash_output, learn_features) ==
  [cls |-> "StateDependentNoiseDistribution", distribution |-> None,
   action_dim |-> action_dim, latent_sde_dim |-> None, mean_actions |-> None,
   log_std |-> None, weights_dist |-> None, exploration_mat |-> None,
   exploration_matrices |-> None, _latent_sde |-> None,
   use_expln |-> use_expln, full_std |-> full_std, epsilon |-> Epsilon,
   learn_features |-> learn_features,
   bijector |-> IF squash_output THEN TanhBijector(Epsilon) ELSE None]

\* a comparison mask as a number: 1 where it holds, 0 elsewhere
Mask(b) == IF b THEN 1 ELSE 0

\* the use_expln branch with the lower mask taken strictly (log_std < 0)
Mutant_ExplnElem(x, epsilon) ==
  LET below_threshold == Exp(x) * Mask(x < 0)
      safe_log_std == x * Mask(x > 0) + epsilon
      above_threshold == (Log1p(safe_log_std) + ONE) * Mask(x > 0)
  IN  below_threshold + above_threshold

\* one element of the use_expln branch of get_std
ExplnElem(x, epsilon) ==
  LET below_threshold == Exp(x) * Mask(x <= 0)
      safe_log_std == x * Mask(x > 0) + epsilon
      above_threshold == (Log1p(safe_log_std) + ONE) * Mask(x > 0)
  IN  below_threshold + above_threshold

SDE_get_std(s, log_std) ==
  LET std == IF s.use_expln THEN Map(LAMBDA x: ExplnElem(x, s.epsilon), log_std)
             ELSE Map(Exp, log_std)
  IN  IF s.full_std THEN std
      ELSE IF IsNone(s.latent_sde_dim) THEN TErr("TypeError")
      ELSE Zip(FMul, Ones(s.latent_sde_dim.some, s.action_dim), std)

\* weights_dist.rsample((batch_size,)): batch_size independent matrices
RsampleBatch(dist, seed, batch_size) ==
  [mats |-> [n \in 1..batch_size |-> NormalRsample(dist, seed + n).v],
   g |-> dist.mean.g \cup dist.scale.g]

\* sample_weights that draws one batched matrix whatever batch_size is
Mutant_SDE_sample_weights(s, log_std, batch_size, seed_mat, seed_batch) ==
  LET std == SDE_get_std(s, log_std)
      weights_dist == Normal(ZerosLike(std), std)
  IN  IF IsErr(std) THEN Done(s, std)
      ELSE Done([s EXCEPT !.weights_dist = weights_dist,
                          !.exploration_mat = NormalRsample(weights_dist, seed_mat),
                          !.exploration_matrices =
                             RsampleBatch(weights_dist, seed_batch, 1)],
                None)

\* seed_mat, seed_batch: the random draws of the two rsample calls
SDE_sample_weights(s, log_std, batch_size, seed_mat, seed_batch) ==
  LET std == SDE_get_std(s, log_std)
      weights_dist == Normal(ZerosLike(std), std)
  IN  IF IsErr(std) THEN Done(s, std)
      ELSE Done([s EXCEPT !.weights_dist = weights_dist,
                          !.exploration_mat = NormalRsample(weights_dist, seed_mat),
                          !.exploration_matrices =
                             RsampleBatch(weights_dist, seed_batch, batch_size)],
                None)

\* proba_distribution_net without the call of sample_weights
Mutant_SDE_proba_distribution_net(s, latent_dim, log_std_init, latent_sde_dim, seed_mat, seed_batch) ==
  LET s1 == [s EXCEPT !.latent_sde_dim =
                         IF IsNone(latent_sde_dim) THEN Some(latent_dim)
                         ELSE latent_sde_dim]
      ones == IF s1.full_std THEN Ones(s1.latent_sde_dim.some, s1.action_dim)
              ELSE Ones(s1.latent_sde_dim.some, 1)
      log_std == T(Map(LAMBDA x: Mul(x, log_std_init), ones).v, 2, {"log_std"})
  IN  Done(s1, [net |-> [in_features |-> latent_dim, out_features |-> s.action_dim],
                log_std |-> log_std])

\* latent_sde_dim = None stands for the omitted argument
SDE_proba_distribution_net(s, latent_dim, log_std_init, latent_sde_dim, seed_mat, seed_batch) ==
  LET s1 == [s EXCEPT !.latent_sde_dim =
                         IF IsNone(latent_sde_dim) THEN Some(latent_dim)
                         ELSE latent_sde_dim]
      ones == IF s1.full_std THEN Ones(s1.latent_sde_dim.some, s1.action_dim)
              ELSE Ones(s1.latent_sde_dim.some, 1)
      log_std == T(Map(LAMBDA x: Mul(x, log_std_init), ones).v, 2, {"log_std"})
      sw == SDE_sample_weights(s1, log_std, 1, seed_mat, seed_batch)
  IN  IF Raised(sw.ret) THEN sw
      ELSE Done(sw.self,
                [net |-> [in_features |-> latent_dim, out_features |-> s.action_dim],
                 log_std |-> log_std])

\* proba_distribution that also draws new exploration matrices
Mutant_SDE_proba_distribution(s, mean_actions, log_std, latent_sde) ==
  LET s0 == SDE_sample_weights(s, log_std, 1, 2, 2).self
      s1 == [s0 EXCEPT !._latent_sde =
                          IF s.learn_features THEN latent_sde ELSE Detach(latent_sde)]
      variance == MatMul(Map(Square, latent_sde), Map(Square, SDE_get_std(s1, log_std)))
      dist == Normal(mean_actions,
                     Map(Sqrt, Map(LAMBDA x: x + s1.epsilon, variance)))
  IN  IF IsErr(dist) THEN Done(s1, dist)
      ELSE Done([s1 EXCEPT !.distribution = dist], Self)

SDE_proba_distribution(s, mean_actions, log_std, latent_sde) ==
  LET s1 == [s EXCEPT !._latent_sde =
                         IF s.learn_features THEN latent_sde ELSE Detach(latent_sde)]
      variance == MatMul(Map(Square, latent_sde), Map(Square, SDE_get_std(s1, log_std)))
      dist == Normal(mean_actions,
                     Map(Sqrt, Map(LAMBDA x: x + s1.epsilon, variance)))
  IN  IF IsErr(dist) THEN Done(s1, dist)
      ELSE Done([s1 EXCEPT !.distribution = dist], Self)

SDE_mode(s) ==
  IF IsNone(s.distribution) THEN Done(s, TErr("AttributeError"))
  ELSE LET action == s.distribution.mean
       IN  IF ~IsNone(s.bijector) THEN Done(s, TanhBijector_forward(action))
           ELSE Done(s, action)

\* th.bmm(latent_sde.unsqueeze(1), exploration_matrices).squeeze(1): row i
\* times matrix i
BatchMatMul(latent_sde, matrices) ==
  IF NCols(latent_sde) # Len(matrices.mats[1]) THEN TErr("RuntimeError")
  ELSE T([i \in 1..NRows(latent_sde) |-> RowTimes(latent_sde.v[i], matrices.mats[i])],
         2, latent_sde.g \cup matrices.g)

\* get_noise without the test for a single feature row
Mutant_SDE_get_noise(s, latent_sde_arg) ==
  IF IsNone(latent_sde_arg)
  THEN TErr(IF s.learn_features THEN "TypeError" ELSE "AttributeError")
  ELSE
    LET latent_sde == IF s.learn_features THEN latent_sde_arg ELSE Detach(latent_sde_arg)
    IN  IF IsNone(s.exploration_matrices) THEN TErr("TypeError")
        ELSE IF TLen(latent_sde) # Len(s.exploration_matrices.mats)
        THEN (IF IsNone(s.exploration_mat) THEN TErr("TypeError")
              ELSE MatMul(latent_sde, s.exploration_mat))
        ELSE BatchMatMul(latent_sde, s.exploration_matrices)

\* the result of get_noise: a tensor or a raised exception
SDE_get_noise(s, latent_sde_arg) ==
  IF IsNone(latent_sde_arg)
  THEN TErr(IF s.learn_features THEN "TypeError" ELSE "AttributeError")
  ELSE
    LET latent_sde == IF s.learn_features THEN latent_sde_arg ELSE Detach(latent_sde_arg)
    IN  IF TLen(latent_sde) # 1 /\ IsNone(s.exploration_matrices) THEN TErr("TypeError")
        ELSE IF TLen(latent_sde) = 1 \/ TLen(latent_sde) # Len(s.exploration_matrices.mats)
        THEN (IF IsNone(s.exploration_mat) THEN TErr("TypeError")
              ELSE MatMul(latent_sde, s.exploration_mat))
        ELSE BatchMatMul(latent_sde, s.exploration_matrices)

\* sample that leaves the noise out of the action
Mutant_SDE_sample(s, latent_sde) ==
  LET noise == SDE_get_noise(s, latent_sde)
  IN  IF IsErr(noise) THEN Done(s, noise)
      ELSE IF IsNone(s.distribution) THEN Done(s, TErr("AttributeError"))
      ELSE LET action == Zip(Plus, s.distribution.mean, ZerosLike(noise))
           IN  IF ~IsNone(s.bijector) THEN Done(s, TanhBijector_forward(action))
               ELSE Done(s, action)

SDE_sample(s, latent_sde) ==
  LET noise == SDE_get_noise(s, latent_sde)
  IN  IF IsErr(noise) THEN Done(s, noise)
      ELSE IF IsNone(s.distribution) THEN Done(s, TErr("AttributeError"))
      ELSE LET action == Zip(Plus, s.distribution.mean, noise)
           IN  IF ~IsNone(s.bijector) THEN Done(s, TanhBijector_forward(action))
               ELSE Done(s, action)

\* entropy with the bijector test inverted
Mutant_SDE_entropy(s) ==
  IF IsNone(s.bijector) THEN Done(s, None)
  ELSE IF IsNone(s.distribution) THEN Done(s, TErr("AttributeError"))
  ELSE Done(s, sum_independent_dims(NormalEntropy(s.distribution)))

SDE_entropy(s) ==
  IF ~IsNone(s.bijector) THEN Done(s, None)
  ELSE IF IsNone(s.distribution) THEN Done(s, TErr("AttributeError"))
  ELSE Done(s, sum_independent_dims(NormalEntropy(s.distribution)))

SDE_log_prob(s, action) ==
  LET gaussian_action == IF ~IsNone(s.bijector) THEN TanhBijector_inverse(action)
                         ELSE action
  IN  IF IsNone(s.distribution) THEN Done(s, TErr("AttributeError"))
      ELSE LET log_prob == sum_independent_dims(NormalLogProb(s.distribution,
                                                              gaussian_action))
           IN  IF ~IsNone(s.bijector)
               THEN Done(s, Zip(Minus, log_prob,
                                SumDim1(TanhBijector_log_prob_correction(
                                           s.bijector, gaussian_action))))
               ELSE Done(s, log_prob)

\* ------------------------------------------------- dynamic dispatch
\* isinstance tests of the exact class (None is an instance of none)
ClassOf(s) == IF "cls" \in DOMAIN s THEN s.cls ELSE "NoneType"
IsSDE(s) == ClassOf(s) = "StateDependentNoiseDistribution"
IsSquashed(s) == ClassOf(s) = "SquashedDiagGaussianDistribution"
IsCategorical(s) == ClassOf(s) = "CategoricalDistribution"
IsDiagGaussian(s) == ClassOf(s) = "DiagGaussianDistribution"

\* self.mode()
Mode(s) ==
  CASE IsDiagGaussian(s) -> DiagGaussian_mode(s)
    [] IsSquashed(s) -> Squashed_mode(s)
    [] IsCategorical(s) -> Categorical_mode(s)
    [] IsSDE(s) -> SDE_mode(s)

\* self.sample() of the classes whose sample takes no argument
Sample(s, seed) ==
  CASE IsDiagGaussian(s) -> DiagGaussian_sample(s, seed)
    [] IsSquashed(s) -> Squashed_sample(s, seed)
    [] IsCategorical(s) -> Categorical_sample(s, seed)

\* self.entropy()
Entropy(s) ==
  CASE IsDiagGaussian(s) -> DiagGaussian_entropy(s)
    [] IsSquashed(s) -> Squashed_entropy(s)
    [] IsCategorical(s) -> Categorical_entropy(s)
    [] IsSDE(s) -> SDE_entropy(s)

\* Distribution.get_actions, overridden by StateDependentNoiseDistribution
get_actions(s, deterministic, seed) ==
  IF deterministic THEN Mode(s)
  ELSE IF IsSDE(s) THEN SDE_sample(s, s._latent_sde)
  ELSE Sample(s, seed)

\* DiagGaussianDistribution.actions_from_params (inherited by the squashed class)
DiagGaussian_actions_from_params(s, mean_actions, log_std, deterministic, seed) ==
  LET pd == IF IsSquashed(s) THEN Squashed_proba_distribution(s, mean_actions, log_std)
            ELSE DiagGaussian_proba_distribution(s, mean_actions, log_std)
  IN  IF Raised(pd.ret) THEN pd ELSE get_actions(pd.self, deterministic, seed)

DiagGaussian_log_prob_from_params(s, mean_actions, log_std, seed) ==
  LET act == DiagGaussian_actions_from_params(s, mean_actions, log_std, FALSE, seed)
      lp == DiagGaussian_log_prob(act.self, act.ret)
  IN  IF Raised(act.ret) THEN act
      ELSE IF Raised(lp.ret) THEN lp
      ELSE Done(lp.self, [action |-> act.ret, log_prob |-> lp.ret])

Squashed_log_prob_from_params(s, mean_actions, log_std, seed) ==
  LET act == DiagGaussian_actions_from_params(s, mean_actions, log_std, FALSE, seed)
      lp == Squashed_log_prob(act.self, act.ret, act.self.gaussian_action)
  IN  IF Raised(act.ret) THEN act
      ELSE IF Raised(lp.ret) THEN lp
      ELSE Done(lp.self, [action |-> act.ret, log_prob |-> lp.ret])

Categorical_actions_from_params(s, action_logits, deterministic, seed) ==
  get_actions(Categorical_proba_distribution(s, action_logits).self, deterministic, seed)

Categorical_log_prob_from_params(s, action_logits, seed) ==
  LET act == Categorical_actions_from_params(s, action_logits, FALSE, seed)
      lp == Categorical_log_prob(act.self, act.ret)
  IN  IF Raised(act.ret) THEN act
      ELSE IF Raised(lp.ret) THEN lp
      ELSE Done(lp.self, [action |-> act.ret, log_prob |-> lp.ret])

SDE_actions_from_params(s, mean_actions, log_std, latent_sde, deterministic) ==
  LET pd == SDE_proba_distribution(s, mean_actions, log_std, latent_sde)
  IN  IF Raised(pd.ret) THEN pd ELSE get_actions(pd.self, deterministic, 0)

SDE_log_prob_from_params(s, mean_actions, log_std, latent_sde) ==
  LET act == SDE_actions_from_params(s, mean_actions, log_std, latent_sde, FALSE)
      lp == SDE_log_prob(act.self, act.ret)
  IN  IF Raised(act.ret) THEN act
      ELSE IF Raised(lp.ret) THEN lp
      ELSE Done(lp.self, [action |-> act.ret, log_prob |-> lp.ret])

\* ------------------------------------------------- the factory
\* gym action spaces: Box(shape), Discrete(n) and the variants without a
\* distribution
ActionDims == {1, 2}
Shapes == UNION {[1..r -> ActionDims] : r \in 0..MaxRank}
ActionSpaces ==
  {[type |-> "Box", shape |-> sh] : sh \in Shapes}
  \cup {[type |-> "Discrete", n |-> n] : n \in ActionDims}
  \cup {[type |-> "MultiDiscrete"], [type |-> "MultiBinary"]}

RECURSIVE Prod(_)
Prod(sh) == IF sh = <<>> THEN 1 ELSE Head(sh) * Prod(Tail(sh))
\* preprocessing.get_action_dim of a Box: the number of its entries
get_action_dim(action_space) == Prod(action_space.shape)

\* dist_kwargs: the keywords given (keys) and their values; a flag that is
\* not given has the constructor's default
SDEKeywords == {"full_std", "use_expln", "squash_output", "learn_features"}
SDEDefaults == [full_std |-> TRUE, use_expln |-> FALSE, squash_output |-> FALSE,
                learn_features |-> FALSE]
KeywordSets == {{}, SDEKeywords} \cup {{k} : k \in SDEKeywords}
\* the keywords of keys given with the default value or with the other one
Kwargs(keys, other) ==
  [keys |-> keys,
   full_std |-> SDEDefaults.full_std # ("full_std" \in keys /\ other),
   use_expln |-> SDEDefaults.use_expln # ("use_expln" \in keys /\ other),
   squash_output |-> SDEDefaults.squash_output # ("squash_output" \in keys /\ other),
   learn_features |-> SDEDefaults.learn_features # ("learn_features" \in keys /\ other)]
DistKwargs == {Kwargs(keys, other) : keys \in KeywordSets, other \in BOOLEAN}

\* Class(action_dim, **dist_kwargs): a keyword the constructor does not
\* have raises TypeError
Construct(cls, action_dim, kw) ==
  IF cls = "StateDependentNoiseDistribution"
  THEN StateDependentNoiseDistribution(action_dim, kw.full_std, kw.use_expln,
                                       kw.squash_output, kw.learn_features)
  ELSE IF kw.keys # {} THEN TErr("TypeError")
  ELSE IF cls = "DiagGaussianDistribution" THEN DiagGaussianDistribution(action_dim)
  ELSE CategoricalDistribution(action_dim)

\* make_proba_distribution with the use_sde test inverted
Mutant_make_proba_distribution(action_space, use_sde, dist_kwargs) ==
  IF action_space.type = "Box"
  THEN IF Len(action_space.shape) # 1 THEN TErr("AssertionError")
       ELSE IF ~use_sde
       THEN Construct("StateDependentNoiseDistribution",
                      get_action_dim(action_space), dist_kwargs)
       ELSE Construct("DiagGaussianDistribution",
                      get_action_dim(action_space), dist_kwargs)
  ELSE IF action_space.type = "Discrete"
  THEN Construct("CategoricalDistribution", action_space.n, dist_kwargs)
  ELSE TErr("NotImplementedError")

\* the instance returned, or the exception raised
make_proba_distribution(action_space, use_sde, dist_kwargs) ==
  IF action_space.type = "Box"
  THEN IF Len(action_space.shape) # 1 THEN TErr("AssertionError")
       ELSE IF use_sde
       THEN Construct("StateDependentNoiseDistribution",
                      get_action_dim(action_space), dist_kwargs)
       ELSE Construct("DiagGaussianDistribution",
                      get_action_dim(action_space), dist_kwargs)
  ELSE IF action_space.type = "Discrete"
  THEN Construct("CategoricalDistribution", action_space.n, dist_kwargs)
  ELSE TErr("NotImplementedError")

\* ---------------------------------------------------------------- state
VARIABLES
  self,         \* the distribution instance (None before construction)
  call,         \* the last operation called and its arguments
  ret,          \* what it returned or raised
  last_action   \* squashed Gaussian: the action last returned by mode/sample

vars == <<self, call, ret, last_action>>

NoCall == [op |-> "none"]

Init ==
  /\ self = None
  /\ call = NoCall
  /\ ret = None
  /\ last_action = None

Constructed == ~IsNone(self)

\* the operations in which mode() or sample() returns the action
ActionOps == {"mode", "sample", "get_actions", "actions_from_params"}

\* the step of a call c that ended as r = Done(object, returned); calls do
\* not overlap (single-threaded, synchronous use)
Step(c, r) ==
  /\ call = NoCall
  /\ self' = r.self
  /\ call' = c
  /\ ret' = r.ret
  /\ last_action' =
       IF ~IsSquashed(self) \/ Raised(r.ret) THEN last_action
       ELSE IF c.op \in ActionOps THEN r.ret
       ELSE IF c.op = "log_prob_from_params" THEN r.ret.action
       ELSE last_action

\* ------------------------------------------------------------- inputs
Batches == 1..MaxBatch
LatentDims == 1..MaxLatent
LogStdInits == {0, -2 * ONE}      \* log_std_init: 0.0 and -2.0, the defaults
\* the feature dimension of the tensors given to an SDE instance
FeatDims(s) ==
  IF IsNone(s.latent_sde_dim) THEN LatentDims ELSE {s.latent_sde_dim.some}
\* log_std of an SDE instance: [features, action_dim], or [features, 1]
SDELogStd(s, seed, l) == LogStdMat(seed, l, IF s.full_std THEN s.action_dim ELSE 1)
\* one category index per batch row
CategoryIn(seed, b, n) == T(<<[i \in 1..b |-> (seed + i) % n]>>, 1, {})

\* ------------------------------------------------------------ actions
MakeProbaDistribution ==
  /\ ~Constructed
  /\ \E action_space \in ActionSpaces, use_sde \in BOOLEAN, dist_kwargs \in DistKwargs :
       LET r == make_proba_distribution(action_space, use_sde, dist_kwargs)
       IN  Step([op |-> "make_proba_distribution", action_space |-> action_space,
                 use_sde |-> use_sde, dist_kwargs |-> dist_kwargs],
                IF IsErr(r) THEN Done(None, r) ELSE Done(r, Self))

\* SquashedDiagGaussianDistribution(action_dim), which the factory never builds
NewSquashed ==
  /\ ~Constructed
  /\ \E action_dim \in ActionDims :
       Step([op |-> "__init__", action_dim |-> action_dim],
            Done(SquashedDiagGaussianDistribution(action_dim), Self))

\* the Gaussian classes: DiagGaussianDistribution and its squashed subclass
IsGaussian(s) == IsDiagGaussian(s) \/ IsSquashed(s)

GaussianProbaDistributionNet ==
  /\ IsGaussian(self)
  /\ \E latent_dim \in LatentDims, log_std_init \in LogStdInits :
       Step([op |-> "proba_distribution_net", latent_dim |-> latent_dim,
             log_std_init |-> log_std_init],
            DiagGaussian_proba_distribution_net(self, latent_dim, log_std_init))

CategoricalProbaDistributionNet ==
  /\ IsCategorical(self)
  /\ \E latent_dim \in LatentDims :
       Step([op |-> "proba_distribution_net", latent_dim |-> latent_dim],
            Categorical_proba_distribution_net(self, latent_dim))

SDEProbaDistributionNet ==
  /\ IsSDE(self)
  /\ \E latent_dim \in LatentDims, log_std_init \in LogStdInits,
        latent_sde_dim \in {None} \cup {Some(l) : l \in LatentDims}, seed \in Seeds :
       Step([op |-> "proba_distribution_net", latent_dim |-> latent_dim,
             log_std_init |-> log_std_init, latent_sde_dim |-> latent_sde_dim],
            SDE_proba_distribution_net(self, latent_dim, log_std_init,
                                       latent_sde_dim, seed, seed))

GaussianProbaDistribution ==
  /\ IsGaussian(self)
  /\ \E b \in Batches, seed \in InputSeeds :
       Step([op |-> "proba_distribution"],
            IF IsSquashed(self)
            THEN Squashed_proba_distribution(
                   self, MeanActions(seed, b, self.action_dim),
                   LogStdVec(seed, self.action_dim))
            ELSE DiagGaussian_proba_distribution(
                   self, MeanActions(seed, b, self.action_dim),
                   LogStdVec(seed, self.action_dim)))

CategoricalProbaDistribution ==
  /\ IsCategorical(self)
  /\ \E b \in Batches, seed \in InputSeeds :
       Step([op |-> "proba_distribution"],
            Categorical_proba_distribution(self, Logits(seed, b, self.action_dim)))

SDEProbaDistribution ==
  /\ IsSDE(self)
  /\ \E b \in Batches, seed \in InputSeeds, l \in FeatDims(self) :
       Step([op |-> "proba_distribution",
             mean_actions |-> MeanActions(seed, b, self.action_dim)],
            SDE_proba_distribution(self, MeanActions(seed, b, self.action_dim),
                                   SDELogStd(self, seed, l), LatentSde(seed, b, l)))

ModeCall ==
  /\ Constructed
  /\ Step([op |-> "mode"], Mode(self))

SampleCall ==
  /\ Constructed /\ ~IsSDE(self)
  /\ \E seed \in Seeds : Step([op |-> "sample"], Sample(self, seed))

SDESample ==
  /\ IsSDE(self)
  /\ \E b \in Batches, seed \in InputSeeds, l \in FeatDims(self) :
       Step([op |-> "sample", latent_sde |-> LatentSde(seed, b, l)],
            SDE_sample(self, LatentSde(seed, b, l)))

EntropyCall ==
  /\ Constructed
  /\ Step([op |-> "entropy"], Entropy(self))

DiagGaussianLogProb ==
  /\ IsDiagGaussian(self)
  /\ \E b \in Batches, seed \in InputSeeds :
       Step([op |-> "log_prob", action |-> ActionIn(seed, b, self.action_dim)],
            DiagGaussian_log_prob(self, ActionIn(seed, b, self.action_dim)))

SquashedLogProb ==
  /\ IsSquashed(self)
  /\ \E b \in Batches, seed \in InputSeeds, aseed \in SquashedActionSeeds :
       \E gaussian_action \in {None, MeanActions(seed, b, self.action_dim)} :
         LET action == SquashedActionIn(aseed, b, self.action_dim)
         IN  Step([op |-> "log_prob", action |-> action,
                   gaussian_action |-> gaussian_action],
                  Squashed_log_prob(self, action, gaussian_action))

CategoricalLogProb ==
  /\ IsCategorical(self)
  /\ \E b \in Batches, seed \in InputSeeds :
       Step([op |-> "log_prob", action |-> CategoryIn(seed, b, self.action_dim)],
            Categorical_log_prob(self, CategoryIn(seed, b, self.action_dim)))

SDELogProb ==
  /\ IsSDE(self)
  /\ \E b \in Batches, seed \in InputSeeds :
       Step([op |-> "log_prob", action |-> ActionIn(seed, b, self.action_dim)],
            SDE_log_prob(self, ActionIn(seed, b, self.action_dim)))

GetActionsCall ==
  /\ Constructed
  /\ \E deterministic \in BOOLEAN, seed \in Seeds :
       Step([op |-> "get_actions", deterministic |-> deterministic],
            get_actions(self, deterministic, seed))

GaussianActionsFromParams ==
  /\ IsGaussian(self)
  /\ \E b \in Batches, seed \in Seeds, deterministic \in BOOLEAN :
       Step([op |-> "actions_from_params", deterministic |-> deterministic],
            DiagGaussian_actions_from_params(
              self, MeanActions(seed, b, self.action_dim),
              LogStdVec(seed, self.action_dim), deterministic, seed))

CategoricalActionsFromParams ==
  /\ IsCategorical(self)
  /\ \E b \in Batches, seed \in Seeds, deterministic \in BOOLEAN :
       Step([op |-> "actions_from_params", deterministic |-> deterministic],
            Categorical_actions_from_params(
              self, Logits(seed, b, self.action_dim), deterministic, seed))

SDEActionsFromParams ==
  /\ IsSDE(self)
  /\ \E b \in Batches, seed \in InputSeeds, deterministic \in BOOLEAN, l \in FeatDims(self) :
       Step([op |-> "actions_from_params", deterministic |-> deterministic],
            SDE_actions_from_params(
              self, MeanActions(seed, b, self.action_dim),
              SDELogStd(self, seed, l), LatentSde(seed, b, l), deterministic))

DiagGaussianLogProbFromParams ==
  /\ IsDiagGaussian(self)
  /\ \E b \in Batches, seed \in Seeds :
       Step([op |-> "log_prob_from_params"],
            DiagGaussian_log_prob_from_params(
              self, MeanActions(seed, b, self.action_dim),
              LogStdVec(seed, self.action_dim), seed))

SquashedLogProbFromParams ==
  /\ IsSquashed(self)
  /\ \E b \in Batches, seed \in Seeds :
       Step([op |-> "log_prob_from_params"],
            Squashed_log_prob_from_params(
              self, MeanActions(seed, b, self.action_dim),
              LogStdVec(seed, self.action_dim), seed))

CategoricalLogProbFromParams ==
  /\ IsCategorical(self)
  /\ \E b \in Batches, seed \in Seeds :
       Step([op |-> "log_prob_from_params"],
            Categorical_log_prob_from_params(
              self, Logits(seed, b, self.action_dim), seed))

SDELogProbFromParams ==
  /\ IsSDE(self)
  /\ \E b \in Batches, seed \in InputSeeds, l \in FeatDims(self) :
       Step([op |-> "log_prob_from_params"],
            SDE_log_prob_from_params(
              self, MeanActions(seed, b, self.action_dim),
              SDELogStd(self, seed, l), LatentSde(seed, b, l)))

SampleWeights ==
  /\ IsSDE(self)
  /\ \E batch_size \in Batches, seed \in Seeds, l \in FeatDims(self) :
       Step([op |-> "sample_weights", log_std |-> SDELogStd(self, seed, l),
             batch_size |-> batch_size],
            SDE_sample_weights(self, SDELogStd(self, seed, l), batch_size, seed, seed))

GetNoise ==
  /\ IsSDE(self)
  /\ \E b \in Batches, seed \in InputSeeds, l \in FeatDims(self) :
       Step([op |-> "get_noise", latent_sde |-> LatentSde(seed, b, l)],
            Done(self, SDE_get_noise(self, LatentSde(seed, b, l))))

GetStd ==
  /\ IsSDE(self)
  /\ \E seed \in InputSeeds, l \in FeatDims(self) :
       Step([op |-> "get_std", log_std |-> SDELogStd(self, seed, l)],
            Done(self, SDE_get_std(self, SDELogStd(self, seed, l))))

\* the arguments of TanhBijector.inverse: in (-1, 1), at the ends, outside
InverseVals == {0, ONE \div 2, ONE - 1, 1 - ONE, ONE, -ONE, 2 * ONE, -2 * ONE, Inf, -Inf}
InverseInputs ==
  UNION {{T([i \in 1..b |-> <<f[i]>>], 2, {}) : f \in [1..b -> InverseVals]} :
         b \in Batches}

\* TanhBijector.inverse(y), a static method: it reads no instance and is
\* called here before one exists
TanhBijectorInverse ==
  /\ ~Constructed
  /\ \E y \in InverseInputs :
       Step([op |-> "inverse", y |-> y], Done(self, TanhBijector_inverse(y)))

\* the caller takes what the call returned (or handles what it raised)
Return ==
  /\ call # NoCall
  /\ call' = NoCall
  /\ ret' = None
  /\ UNCHANGED <<self, last_action>>

Next ==
  \/ Return
  \/ MakeProbaDistribution
  \/ NewSquashed
  \/ GaussianProbaDistributionNet
  \/ CategoricalProbaDistributionNet
  \/ SDEProbaDistributionNet
  \/ GaussianProbaDistribution
  \/ CategoricalProbaDistribution
  \/ SDEProbaDistribution
  \/ ModeCall
  \/ SampleCall
  \/ SDESample
  \/ EntropyCall
  \/ DiagGaussianLogProb
  \/ SquashedLogProb
  \/ CategoricalLogProb
  \/ SDELogProb
  \/ GetActionsCall
  \/ GaussianActionsFromParams
  \/ CategoricalActionsFromParams
  \/ SDEActionsFromParams
  \/ DiagGaussianLogProbFromParams
  \/ SquashedLogProbFromParams
  \/ CategoricalLogProbFromParams
  \/ SDELogProbFromParams
  \/ SampleWeights
  \/ GetNoise
  \/ GetStd
  \/ TanhBijectorInverse

Spec == Init /\ [][Next]_vars

\* ================================================================ claims
\* The spec's error names are the source's exceptions: UnsupportedShapeError
\* is the AssertionError of the shape assert, UnsupportedActionSpaceError the
\* NotImplementedError of the last branch.

FactoryCall == call.op = "make_proba_distribution"
\* the factory returned an instance of class cls with action_dim n
Returned(cls, n) ==
  /\ ret = Self
  /\ ClassOf(self) = cls
  /\ self.action_dim = n
\* the factory raised e and returned no distribution
Failed(e) == ret = TErr(e) /\ IsNone(self)

\* the class the dispatch selects for a supported action space
Selected(action_space, use_sde) ==
  IF action_space.type = "Discrete" THEN "CategoricalDistribution"
  ELSE IF use_sde THEN "StateDependentNoiseDistribution"
  ELSE "DiagGaussianDistribution"
\* the keywords the constructor of cls has besides action_dim
Keywords(cls) == IF cls = "StateDependentNoiseDistribution" THEN SDEKeywords ELSE {}

\* the outcome the dispatch table gives for the call, ok telling whether
\* the selected constructor is taken to succeed
Dispatch(ok) ==
  LET sp == call.action_space
  IN  IF sp.type = "Box" /\ Len(sp.shape) # 1 THEN Failed("AssertionError")
      ELSE IF sp.type \notin {"Box", "Discrete"} THEN Failed("NotImplementedError")
      ELSE IF ok
      THEN Returned(Selected(sp, call.use_sde),
                    IF sp.type = "Box" THEN sp.shape[1] ELSE sp.n)
      ELSE Failed("TypeError")

\* C1 as stated: make_proba_distribution is a total dispatch on the action
\* space and use_sde alone: Box of rank 1 and dimension d gives a
\* DiagGaussianDistribution (use_sde false) or StateDependentNoiseDistribution
\* (use_sde true) with action_dim = d, Discrete(n) gives a
\* CategoricalDistribution with action_dim = n, a Box of another rank fails
\* with the shape error and any other space with the unsupported-space error.
C1_TotalDispatch == FactoryCall => Dispatch(TRUE)

\* C1 amended: the dispatch is as stated whenever every keyword of
\* dist_kwargs is a parameter of the selected class's constructor (always
\* so for the default, empty dist_kwargs); with any other keyword the
\* selected constructor raises TypeError and no distribution is returned.
C1_Dispatch ==
  FactoryCall =>
    Dispatch(call.dist_kwargs.keys
               \subseteq Keywords(Selected(call.action_space, call.use_sde)))

\* C1 witness: the factory has built an SDE distribution of dimension 2
\* from a rank-1 Box with SDE keywords
C1_Witness ==
  /\ FactoryCall
  /\ call.action_space = [type |-> "Box", shape |-> <<2>>]
  /\ call.use_sde /\ call.dist_kwargs.keys = SDEKeywords
  /\ Returned("StateDependentNoiseDistribution", 2)

\* the four operations that read the distribution state
ReadOps == {"log_prob", "sample", "mode", "entropy"}
\* proba_distribution has not initialised the instance's distribution
Uninitialised == Constructed /\ IsNone(self.distribution)
HasBijector(s) == IsSDE(s) /\ ~IsNone(s.bijector)

\* C2 as stated: log_prob, sample, mode and entropy on an instance whose
\* distribution proba_distribution has not initialised all end in an error
\* (PreconditionError; here any exception counts) and none returns a value.
C2_AlwaysRaises == (call.op \in ReadOps /\ Uninitialised) => Raised(ret)

\* C2 amended: on an instance whose distribution is not initialised,
\* log_prob, sample and mode of every class, and entropy of
\* DiagGaussianDistribution, CategoricalDistribution and an SDE distribution
\* without bijector, end in an exception (the fault on the None distribution,
\* or the exception get_noise raises first); entropy of
\* SquashedDiagGaussianDistribution and of an SDE distribution with
\* squash_output returns None without reading the distribution. None of
\* them returns a tensor.
C2_RaisesOrNone ==
  (call.op \in ReadOps /\ Uninitialised) =>
    IF call.op = "entropy" /\ (IsSquashed(self) \/ HasBijector(self))
    THEN IsNone(ret)
    ELSE Raised(ret)

\* C2 witness: sample() on an SDE instance with exploration matrices but no
\* distribution has raised AttributeError
C2_Witness ==
  /\ call.op = "sample" /\ IsSDE(self) /\ Uninitialised
  /\ ~IsNone(self.exploration_mat)
  /\ ret = TErr("AttributeError")

\* the exploration state of an SDE instance
Exploration(s) ==
  IF IsSDE(s) THEN <<s.weights_dist, s.exploration_mat, s.exploration_matrices>>
  ELSE <<None, None, None>>
\* the operations that call sample_weights
SampleWeightsOps == {"sample_weights", "proba_distribution_net"}

\* C3: the exploration state (weights_dist, exploration_mat,
\* exploration_matrices) of an SDE instance changes only in a step of
\* sample_weights or proba_distribution_net; every other operation leaves
\* it as it is.
C3_ExplorationFrozen ==
  [][Exploration(self') # Exploration(self) => call'.op \in SampleWeightsOps]_vars

\* C3 witness: proba_distribution has set the distribution of an SDE
\* instance whose exploration matrices were drawn before
C3_Witness ==
  /\ IsSDE(self) /\ call.op = "proba_distribution" /\ ret = Self
  /\ ~IsNone(self.exploration_mat)
  /\ Len(self.exploration_matrices.mats) = 2

\* the optional squashing of an SDE action
Squash(s, action) == IF HasBijector(s) THEN Map(Tanh, action) ELSE action
\* the operations that call sample_weights or proba_distribution
ResetOps == SampleWeightsOps
            \cup {"proba_distribution", "actions_from_params", "log_prob_from_params"}
\* the feature batches sample() is given
LatentInputs(s) ==
  {LatentSde(seed, b, l) : seed \in InputSeeds, b \in Batches, l \in FeatDims(s)}

\* what sample and mode return, and the mean proba_distribution keeps
SampleIsMeanPlusNoise(s, c, r) ==
  /\ (IsSDE(s) /\ c.op = "sample" /\ ~Raised(r)) =>
       r = Squash(s, Zip(Plus, s.distribution.mean, SDE_get_noise(s, c.latent_sde)))
  /\ (IsSDE(s) /\ c.op = "proba_distribution" /\ r = Self) =>
       s.distribution.mean = c.mean_actions
  /\ (IsSDE(s) /\ c.op = "mode" /\ ~Raised(r)) =>
       r = Squash(s, s.distribution.mean)

\* C4: sample(latent_sde) of an SDE instance returns the optionally squashed
\* sum of the mean given to the last proba_distribution call and of
\* get_noise(latent_sde) on the current exploration matrices; mode() returns
\* the optionally squashed mean without noise; and a step of an operation
\* that calls neither sample_weights nor proba_distribution (another sample
\* among them) changes the result of sample for no latent_sde, so two such
\* sample calls with the same latent_sde return the same action.
C4_SampleConsistent ==
  [][/\ SampleIsMeanPlusNoise(self', call', ret')
     /\ (IsSDE(self) /\ call'.op \notin ResetOps) =>
          \/ self' = self
          \/ \A latent_sde \in LatentInputs(self) :
               SDE_sample(self', latent_sde).ret = SDE_sample(self, latent_sde).ret]_vars

\* C4 witness: sample has returned a squashed action that differs from the
\* squashed mean, the noise coming from the exploration matrix
C4_Witness ==
  /\ IsSDE(self) /\ HasBijector(self)
  /\ call.op = "sample" /\ ~Raised(ret)
  /\ ret # Squash(self, self.distribution.mean)
  /\ NRows(call.latent_sde) = 2

\* the feature batch of a get_noise call fits the exploration matrices
NoiseCall ==
  /\ IsSDE(self) /\ call.op = "get_noise"
  /\ ~IsNone(self.exploration_matrices)
  /\ NCols(call.latent_sde) = NRows(self.exploration_mat)
\* the matrix get_noise is to use for row i of B rows, N being the batch
\* size of the last sample_weights call
NoiseMatrix(i, B, N) ==
  IF B = 1 \/ B # N THEN self.exploration_mat.v
  ELSE self.exploration_matrices.mats[i]

\* C5: get_noise(latent_sde) on B feature rows, after sample_weights with
\* batch_size N, never raises and gives for row i the product of that row
\* with exploration_mat when B = 1 or B # N and with
\* exploration_matrices[i] when B = N > 1.
C5_NoiseBranches ==
  NoiseCall =>
    LET B == NRows(call.latent_sde)
        N == Len(self.exploration_matrices.mats)
    IN  /\ ~Raised(ret)
        /\ NRows(ret) = B
        /\ \A i \in 1..B :
             ret.v[i] = RowTimes(call.latent_sde.v[i], NoiseMatrix(i, B, N))

\* C5 witness: get_noise on 2 rows with 2 distinct batched matrices, both
\* other than the shared one, has returned
C5_Witness ==
  /\ NoiseCall /\ ~Raised(ret)
  /\ NRows(call.latent_sde) = 2
  /\ Len(self.exploration_matrices.mats) = 2
  /\ self.exploration_matrices.mats[1] # self.exploration_matrices.mats[2]
  /\ self.exploration_matrices.mats[1] # self.exploration_mat.v
  /\ ret.v[1] # RowTimes(call.latent_sde.v[1], self.exploration_mat.v)

\* C6: proba_distribution_net of an SDE instance records latent_sde_dim
\* (latent_dim when the argument is None), returns log_std of shape
\* [latent_sde_dim, action_dim] (full_std) or [latent_sde_dim, 1] with every
\* entry log_std_init, and has called sample_weights with it: weights_dist
\* has the std of that log_std, exploration_mat is set and there is one
\* batched matrix, each of shape [latent_sde_dim, action_dim]. Hence once
\* latent_sde_dim is recorded the exploration state is set, and sample after
\* proba_distribution raises nothing (for batches that broadcast).
C6_NetSeedsExploration ==
  /\ (IsSDE(self) /\ call.op = "proba_distribution_net") =>
       LET L == IF IsNone(call.latent_sde_dim) THEN call.latent_dim
                ELSE call.latent_sde_dim.some
           C == IF self.full_std THEN self.action_dim ELSE 1
       IN  /\ self.latent_sde_dim = Some(L)
           /\ ~IsNone(self.weights_dist)
           /\ ~IsNone(self.exploration_mat)
           /\ ~IsNone(self.exploration_matrices)
           /\ ret.log_std.v = [i \in 1..L |-> [j \in 1..C |-> call.log_std_init]]
           /\ self.weights_dist.scale.v = SDE_get_std(self, ret.log_std).v
           /\ NRows(self.exploration_mat) = L
           /\ NCols(self.exploration_mat) = self.action_dim
           /\ Len(self.exploration_matrices.mats) = 1
           /\ Len(self.exploration_matrices.mats[1]) = L
           /\ Len(self.exploration_matrices.mats[1][1]) = self.action_dim
  /\ (IsSDE(self) /\ ~IsNone(self.latent_sde_dim)) =>
       /\ ~IsNone(self.exploration_mat)
       /\ ~IsNone(self.exploration_matrices)
  /\ (/\ IsSDE(self) /\ ~IsNone(self.latent_sde_dim) /\ ~IsNone(self.distribution)
      /\ call.op = "sample"
      /\ (NRows(call.latent_sde) = 1 \/ NRows(self.distribution.mean) = 1
          \/ NRows(call.latent_sde) = NRows(self.distribution.mean))) =>
       ~Raised(ret)

\* C6 witness: after proba_distribution_net(latent_dim = 1, latent_sde_dim = 2)
\* on an instance that is not full_std, log_std is a column of two entries
\* -2.0 and the exploration matrix is 2 x 2
C6_Witness ==
  /\ IsSDE(self) /\ call.op = "proba_distribution_net"
  /\ ~self.full_std /\ self.action_dim = 2
  /\ call.latent_dim = 1 /\ call.latent_sde_dim = Some(2)
  /\ ret.log_std.v = <<<<-2 * ONE>>, <<-2 * ONE>>>>
  /\ NRows(self.exploration_mat) = 2 /\ NCols(self.exploration_mat) = 2

\* t is a returned tensor with a gradient path to latent_sde
FromFeatures(t) == IsTensor(t) /\ "latent_sde" \in t.g
\* t is a returned tensor without one (or no tensor)
Featureless(t) == ~FromFeatures(t)

\* C7: with learn_features false nothing the SDE distribution computes from
\* latent_sde has a gradient path to it: not the scale of the Normal built by
\* proba_distribution, not its log_prob and entropy, not the noise of
\* get_noise and sample; with learn_features true the scale and the noise
\* have the path.
C7_FeaturesDetached ==
  IsSDE(self) =>
    IF self.learn_features
    THEN /\ ~IsNone(self.distribution) => FromFeatures(self.distribution.scale)
         /\ (call.op \in {"get_noise", "sample"} /\ IsTensor(ret)) => FromFeatures(ret)
    ELSE /\ ~IsNone(self.distribution) => Featureless(self.distribution.scale)
         /\ call.op \in {"log_prob", "entropy", "get_noise", "sample"}
              => Featureless(ret)

\* the rows of the batch the distribution was built for
BatchRows(s) ==
  IF IsCategorical(s) THEN NRows(s.distribution.logits) ELSE NRows(s.distribution.mean)

\* C8: entropy() returns None exactly for the squashed distributions:
\* always for SquashedDiagGaussianDistribution, for an SDE distribution if
\* and only if it has a bijector, never for DiagGaussianDistribution and
\* CategoricalDistribution; in every other case, once proba_distribution has
\* been called, it returns a vector with one entry per batch row.
C8_EntropyNone ==
  (Constructed /\ call.op = "entropy") =>
    /\ IsSquashed(self) => IsNone(ret)
    /\ IsSDE(self) => (IsNone(ret) <=> HasBijector(self))
    /\ (IsDiagGaussian(self) \/ IsCategorical(self)) => ~IsNone(ret)
    /\ (~IsSquashed(self) /\ ~HasBijector(self) /\ ~IsNone(self.distribution)) =>
         /\ IsTensor(ret) /\ ret.d = 1
         /\ NCols(ret) = BatchRows(self)

\* C8 witness: entropy of an SDE distribution without bijector has returned
\* one entry for each of 2 batch rows
C8_Witness ==
  /\ IsSDE(self) /\ ~HasBijector(self) /\ call.op = "entropy"
  /\ IsTensor(ret) /\ NCols(ret) = 2 /\ BatchRows(self) = 2

\* the squashed log-density of action, x being its pre-squash value
SquashedLogDensity(s, x, action) ==
  Zip(Minus, sum_independent_dims(NormalLogProb(s.distribution, x)),
      SumDim1(Map(LAMBDA a: Log(ONE - Mul(a, a) + s.epsilon), action)))

\* the state (s, c, r, a) of self, call, ret, last_action after a call
SquashedCache(s, c, r, a) ==
  /\ (IsSquashed(s) /\ ~IsNone(s.gaussian_action)) =>
       a = Map(Tanh, s.gaussian_action)
  /\ (IsSquashed(s) /\ c.op = "log_prob_from_params" /\ ~Raised(r)) =>
       /\ r.action = Map(Tanh, s.gaussian_action)
       /\ r.log_prob = SquashedLogDensity(s, s.gaussian_action, r.action)
  /\ (/\ IsSquashed(s) /\ c.op = "log_prob" /\ ~Raised(r)
      /\ IsNone(c.gaussian_action)) =>
       r = SquashedLogDensity(s, TanhBijector_inverse(c.action), c.action)

\* C9: in SquashedDiagGaussianDistribution the cached gaussian_action is the
\* pre-squash value of the action mode() or sample() returned last (that
\* action is its tanh); log_prob_from_params evaluates the density of the
\* action it has drawn at this cached value; log_prob(action) without
\* gaussian_action evaluates it at the clamped TanhBijector.inverse(action),
\* whatever the cache holds; proba_distribution and log_prob leave the cache
\* as it is.
C9_SquashedCache ==
  [][/\ SquashedCache(self', call', ret', last_action')
     /\ (IsSquashed(self) /\ call'.op \in {"proba_distribution", "log_prob"}) =>
          self'.gaussian_action = self.gaussian_action]_vars

\* C9 witness: log_prob without gaussian_action has returned for an action
\* whose recovered pre-squash value differs from the cached one
C9_Witness ==
  /\ IsSquashed(self) /\ call.op = "log_prob" /\ IsTensor(ret)
  /\ IsNone(call.gaussian_action)
  /\ ~IsNone(self.gaussian_action)
  /\ TanhBijector_inverse(call.action) # self.gaussian_action
  /\ last_action # call.action

\* get_std has returned for an instance with use_expln
ExplnCall == IsSDE(self) /\ call.op = "get_std" /\ self.use_expln /\ IsTensor(ret)
\* the elements of log_std with the element of the std each gives
ExplnPairs ==
  {<<At(call.log_std, i, j), ret.v[i][j]>> : i \in 1..NRows(ret), j \in 1..NCols(ret)}

ActionRow(i) == {At(call.action, i, j) : j \in 1..NCols(call.action)}

\* C11: TanhBijector.inverse(y) is atanh of y clamped to [-1 + eps, 1 - eps],
\* eps the machine epsilon, so every entry of its result is finite, for
\* entries at 1 and -1 and outside [-1, 1] (the infinities included) as well;
\* and log_prob(a) of a SquashedDiagGaussianDistribution, called without
\* gaussian_action after proba_distribution, is finite for a batch row whose
\* entries all have |a| < 1 - epsilon and is not NaN for a row whose entries
\* lie in [-1, 1], the ends included.
C11_InverseFinite ==
  /\ call.op = "inverse" =>
       /\ IsTensor(ret)
       /\ \A i \in 1..NRows(ret) :
            LET y == call.y.v[i][1]
                clamped == IF y < -ONE + MachEps THEN -ONE + MachEps
                           ELSE IF y > ONE - MachEps THEN ONE - MachEps ELSE y
            IN  /\ ret.v[i][1] = AtanhElem(clamped)
                /\ IsFinite(ret.v[i][1])
  /\ (/\ IsSquashed(self) /\ ~IsNone(self.distribution)
      /\ call.op = "log_prob" /\ IsNone(call.gaussian_action) /\ IsTensor(ret)) =>
       \A i \in 1..NCols(ret) :
         /\ (\A a \in ActionRow(i) : -(ONE - self.epsilon) < a /\ a < ONE - self.epsilon)
              => IsFinite(ret.v[1][i])
         /\ (\A a \in ActionRow(i) : -ONE <= a /\ a <= ONE)
              => ~IsNaN(ret.v[1][i])

\* C11 witness: log_prob without gaussian_action has returned for a batch of
\* two rows, one with an entry at 1 or -1 and one with all entries inside
\* (-1 + epsilon, 1 - epsilon) and not all 0, both values finite
C11_Witness ==
  /\ IsSquashed(self) /\ ~IsNone(self.distribution)
  /\ call.op = "log_prob" /\ IsNone(call.gaussian_action) /\ IsTensor(ret)
  /\ NCols(ret) = 2
  /\ \E i, k \in 1..2 :
       /\ ActionRow(i) \cap {ONE, -ONE} # {}
       /\ \A a \in ActionRow(k) : -(ONE - self.epsilon) < a /\ a < ONE - self.epsilon
       /\ ActionRow(k) # {0}
       /\ IsFinite(ret.v[1][i]) /\ IsFinite(ret.v[1][k])

\* m is a draw from dist = Normal(0, scale): every entry is the scale of its
\* place times a standard normal value
Drawn(dist, m) ==
  \A i \in 1..Len(m) : \A j \in 1..Len(m[i]) :
    \E e \in {NoiseVals[n] : n \in 1..Len(NoiseVals)} :
      m[i][j] = Mul(dist.scale.v[i][j], e)
\* m is a matrix of r rows and c columns
HasShape(m, r, c) == Len(m) = r /\ \A i \in 1..r : Len(m[i]) = c

\* the exploration state of s is set: one single matrix and n batched ones,
\* each of shape [r, action_dim]
ExplorationSet(s, n, r) ==
  /\ ~IsNone(s.exploration_mat) /\ ~IsNone(s.exploration_matrices)
  /\ HasShape(s.exploration_mat.v, r, s.action_dim)
  /\ Len(s.exploration_matrices.mats) = n
  /\ \A k \in 1..n : HasShape(s.exploration_matrices.mats[k], r, s.action_dim)

\* the exploration state of s comes from one draw for log_std:
\* weights_dist is Normal(0, get_std(log_std)) and every matrix is drawn
\* from it
ExplorationDrawn(s, log_std) ==
  /\ ~IsNone(s.weights_dist)
  /\ s.weights_dist.scale.v = SDE_get_std(s, log_std).v
  /\ s.weights_dist.mean.v = ZerosLike(s.weights_dist.scale).v
  /\ Drawn(s.weights_dist, s.exploration_mat.v)
  /\ \A k \in 1..Len(s.exploration_matrices.mats) :
       Drawn(s.weights_dist, s.exploration_matrices.mats[k])

\* C12 as stated: after a sample_weights call, direct (batch_size matrices)
\* or through proba_distribution_net (one), the exploration state holds one
\* exploration_mat and batch_size exploration_matrices, drawn in that call
\* from Normal(0, get_std(log_std)), each of shape
\* [latent_sde_dim, action_dim]; every other operation keeps it.
C12_ExplorationShapes ==
  [][/\ (IsSDE(self') /\ call'.op = "sample_weights") =>
          /\ ~IsNone(self'.latent_sde_dim)
          /\ ExplorationSet(self', call'.batch_size, self'.latent_sde_dim.some)
          /\ ExplorationDrawn(self', call'.log_std)
     /\ (IsSDE(self') /\ call'.op = "proba_distribution_net") =>
          /\ ExplorationSet(self', 1, self'.latent_sde_dim.some)
          /\ ExplorationDrawn(self', ret'.log_std)
     /\ call'.op \notin SampleWeightsOps => Exploration(self') = Exploration(self)]_vars

\* C12 amended: a sample_weights call that returns leaves one
\* exploration_mat and batch_size exploration_matrices (one after
\* proba_distribution_net), drawn in that call from
\* Normal(0, get_std(log_std)), each of shape [rows of log_std, action_dim];
\* once proba_distribution_net has recorded latent_sde_dim the call returns
\* for a log_std of the parameter's shape and the shape is
\* [latent_sde_dim, action_dim], also when full_std is false and log_std is
\* [latent_sde_dim, 1]. Before that, latent_sde_dim is None: a direct call
\* returns when full_std is true and raises TypeError when it is false,
\* leaving the exploration state as it was. Every other operation keeps the
\* exploration state.
C12_ExplorationAfterDraw ==
  [][/\ (IsSDE(self') /\ call'.op = "sample_weights") =>
          /\ Raised(ret') <=> (~self.full_std /\ IsNone(self.latent_sde_dim))
          /\ Raised(ret') => (ret' = TErr("TypeError") /\ self' = self)
          /\ ~Raised(ret') =>
               /\ ExplorationSet(self', call'.batch_size, NRows(call'.log_std))
               /\ ExplorationDrawn(self', call'.log_std)
               /\ ~IsNone(self'.latent_sde_dim) =>
                    ExplorationSet(self', call'.batch_size, self'.latent_sde_dim.some)
     /\ (IsSDE(self') /\ call'.op = "proba_distribution_net") =>
          /\ ExplorationSet(self', 1, self'.latent_sde_dim.some)
          /\ ExplorationDrawn(self', ret'.log_std)
     /\ call'.op \notin SampleWeightsOps => Exploration(self') = Exploration(self)]_vars

\* C12 witness: sample_weights with batch_size 2 has returned for an
\* instance with full_std false, latent_sde_dim 2 and action_dim 2 and a
\* log_std of shape [2, 1]: two batched matrices of shape [2, 2]
C12_Witness ==
  /\ IsSDE(self) /\ call.op = "sample_weights" /\ IsNone(ret)
  /\ ~self.full_std /\ self.latent_sde_dim = Some(2) /\ self.action_dim = 2
  /\ call.batch_size = 2
  /\ HasShape(call.log_std.v, 2, 1)
  /\ ExplorationSet(self, 2, 2)
  /\ self.exploration_matrices.mats[1] # self.exploration_matrices.mats[2]

====
